---- MODULE Spec2Model ----
(***************************************************************************)
(* proxy70: a Gopher-to-HTTP gateway.  This module models the Gopher       *)
(* protocol layer of src/src/gopher.rs: GopherItem, GopherURL (try_from /  *)
(* Display), DirEntry::from, Menu::from_url and fetch_url, the response-   *)
(* peeking After middleware of src/src/main.rs, and the rate limiter that  *)
(* spec.md describes.                                                      *)
(*                                                                         *)
(* Text is modelled as a sequence of characters, each character a          *)
(* one-character string; "NUL" stands for the byte 0 and "xFF" for a byte  *)
(* that is not valid UTF-8.                                                *)
(***************************************************************************)
EXTENDS Integers, Sequences, FiniteSets, TLC

VARIABLES
    u_pc,       \* GopherURL scenario: "start" | "parsed" | "shown" | "reparsed"
    u_n,        \* how many pieces the input string was put together from
    u_mode,     \* "parse": try_from on an input string; "roundtrip": Display then try_from
    u_str,      \* the string handed to GopherURL::try_from
    u_url,      \* the GopherURL handed to Display
    u_out,      \* what try_from returned: [kind |-> "Ok" | "Err" | "Panic" | "None", url]
    m_pc,       \* Menu::from_url: "fetch" | "loop" | "done" ("off" outside its scenario)
    m_lines,    \* what response.next() yields, in order: [ok, text] per line
    m_pos,      \* how many of m_lines the loop has taken
    items,      \* the Vec<DirEntry> under construction
    m_res,      \* what from_url returned: "None" | "Ok" | "Err"
    f_pc,       \* fetch_url: "connect" | "write" | "peek" | "stream" | "done"
    f_resp,     \* the bytes the server sends before it closes the connection
    f_sock,     \* how many of them have been read from the TcpStream
    f_bufrd,    \* BufReader's internal buffer: read from the socket, not yet handed out
    f_cursor,   \* what is left of Cursor::new(header[0..bytes_read].to_vec())
    f_read,     \* bytes_read of the peek (-1 before it)
    f_res,      \* what fetch_url returned: [kind |-> "None" | "Ok" | "Err" | "IoErr", msg]
    f_out,      \* the bytes the caller has read from the returned stream
    f_eof,      \* the caller's read returned 0: end of the returned stream
    f_sel,      \* url.selector of the GopherURL handed to fetch_url
    f_query,    \* the query argument: [some, q]
    f_req,      \* the bytes written on the connection
    f_ops,      \* the connect, write and read fetch_url has made: [op, ok] each
    bucket,     \* rate limiter: client address -> request counter
    r_calls,    \* per address, the allow() calls since its counter was last reset
    r_hist,     \* per address, the verdicts of those calls, in order
    r_tripped,  \* per address, whether a call was rejected in an earlier window
    r_sweep,    \* the addresses the running bulk reset has still to clear
    e_pc,       \* DirEntry scenario: "char" | "item" | "build" | "parsed" ("off" outside it)
    e_char,     \* the type character under conversion, and of the line being built
    e_item,     \* GopherItem::from(e_char) ("None" before the conversion)
    e_back,     \* Into::<char>::into(e_item) ("None" before the conversion)
    e_fields,   \* the tab-separated fields of the line handed to DirEntry::from
    e_entry,    \* what DirEntry::from returned: [kind |-> "None" | "Ok", entry]
    w_pc,       \* After-middleware: "peek" | "respond" | "done" ("off" outside its scenario)
    w_body,     \* the bytes of the body of the handler's response
    w_status,   \* the status of the handler's response
    w_ctype,    \* the content type of the handler's response ("none" when unset)
    w_buf,      \* the middleware's buf after body.read(&mut buf)
    w_left,     \* what is left of the handler's body after that read
    w_resp      \* the response the middleware returns: [kind, status, ctype, body]

uvars == <<u_pc, u_n, u_mode, u_str, u_url, u_out>>
mvars == <<m_pc, m_lines, m_pos, items, m_res>>
fvars == <<f_pc, f_resp, f_sock, f_bufrd, f_cursor, f_read, f_res, f_out, f_eof,
          f_sel, f_query, f_req, f_ops>>
rvars == <<bucket, r_calls, r_hist, r_tripped, r_sweep>>
evars == <<e_pc, e_char, e_item, e_back, e_fields, e_entry>>
wvars == <<w_pc, w_body, w_status, w_ctype, w_buf, w_left, w_resp>>
vars == <<uvars, mvars, fvars, rvars, evars, wvars>>

(***************************************************************************)
(* Characters                                                              *)
(***************************************************************************)
TAB == "\t"
LF == "\n"
CR == "\r"
NUL == "NUL"
BAD == "xFF"
BACKTICK == "BACKTICK"      \* the character 0x60

Digits == {"0", "1", "2", "3", "4", "5", "6", "7", "8", "9"}

DigitVal(c) ==
    CASE c = "0" -> 0 [] c = "1" -> 1 [] c = "2" -> 2 [] c = "3" -> 3
      [] c = "4" -> 4 [] c = "5" -> 5 [] c = "6" -> 6 [] c = "7" -> 7
      [] c = "8" -> 8 [] c = "9" -> 9

DigitChar(d) ==
    CASE d = 0 -> "0" [] d = 1 -> "1" [] d = 2 -> "2" [] d = 3 -> "3"
      [] d = 4 -> "4" [] d = 5 -> "5" [] d = 6 -> "6" [] d = 7 -> "7"
      [] d = 8 -> "8" [] d = 9 -> "9"

\* The ASCII range 'A'..'z' of the regex class [A-z...]: the letters and the
\* six characters between 'Z' and 'a'.
AzRange ==
    {"A", "B", "C", "D", "E", "F", "G", "H", "I", "J", "K", "L", "M",
     "N", "O", "P", "Q", "R", "S", "T", "U", "V", "W", "X", "Y", "Z",
     "[", "\\", "]", "^", "_", BACKTICK,
     "a", "b", "c", "d", "e", "f", "g", "h", "i", "j", "k", "l", "m",
     "n", "o", "p", "q", "r", "s", "t", "u", "v", "w", "x", "y", "z"}

Min(a, b) == IF a < b THEN a ELSE b
Max(a, b) == IF a > b THEN a ELSE b

\* s[from..] (empty when from is past the end)
Drop(s, from) == SubSeq(s, from, Len(s))

StartsWith(s, p) == Len(s) >= Len(p) /\ SubSeq(s, 1, Len(p)) = p

(***************************************************************************)
(* GopherItem                                                              *)
(***************************************************************************)
GopherItems ==
    {"TextFile", "Submenu", "Nameserver", "Error", "BinHex", "Dos",
     "UuencodeFile", "FullTextSearch", "Telnet", "BinaryFile", "Mirror",
     "GifFile", "ImageFile", "Telnet3270", "BitmapFile", "MovieFile",
     "SoundFile", "DocFile", "HtmlFile", "Info", "PngFile", "RtfFile",
     "WavFile", "PdfFile", "XmlFile", "Unknown"}

\* impl From<char> for GopherItem
ItemFromChar(c) ==
    CASE c = "0" -> "TextFile"
      [] c = "1" -> "Submenu"
      [] c = "2" -> "Nameserver"
      [] c = "3" -> "Error"
      [] c = "4" -> "BinHex"
      [] c = "5" -> "Dos"
      [] c = "6" -> "UuencodeFile"
      [] c = "7" -> "FullTextSearch"
      [] c = "8" -> "Telnet"
      [] c = "9" -> "BinaryFile"
      [] c = "+" -> "Mirror"
      [] c = "g" -> "GifFile"
      [] c = "I" -> "ImageFile"
      [] c = "T" -> "Telnet3270"
      [] c = ":" -> "BitmapFile"
      [] c = ";" -> "MovieFile"
      [] c = "<" -> "SoundFile"
      [] c = "d" -> "DocFile"
      [] c = "h" -> "HtmlFile"
      [] c = "i" -> "Info"
      [] c = "p" -> "PngFile"
      [] c = "r" -> "RtfFile"
      [] c = "s" -> "WavFile"
      [] c = "P" -> "PdfFile"
      [] c = "X" -> "XmlFile"
      [] OTHER -> "Unknown"

\* impl Into<char> for GopherItem
ItemToChar_PngPdfSwapped(t) ==
    CASE t = "TextFile" -> "0"
      [] t = "Submenu" -> "1"
      [] t = "Nameserver" -> "2"
      [] t = "Error" -> "3"
      [] t = "BinHex" -> "4"
      [] t = "Dos" -> "5"
      [] t = "UuencodeFile" -> "6"
      [] t = "FullTextSearch" -> "7"
      [] t = "Telnet" -> "8"
      [] t = "BinaryFile" -> "9"
      [] t = "Mirror" -> "+"
      [] t = "GifFile" -> "g"
      [] t = "ImageFile" -> "I"
      [] t = "Telnet3270" -> "T"
      [] t = "BitmapFile" -> ":"
      [] t = "MovieFile" -> ";"
      [] t = "SoundFile" -> "<"
      [] t = "DocFile" -> "d"
      [] t = "HtmlFile" -> "h"
      [] t = "Info" -> "i"
      [] t = "PngFile" -> "P"
      [] t = "RtfFile" -> "r"
      [] t = "WavFile" -> "s"
      [] t = "PdfFile" -> "p"
      [] t = "XmlFile" -> "X"
      [] t = "Unknown" -> "?"
ItemToChar(t) ==
    CASE t = "TextFile" -> "0"
      [] t = "Submenu" -> "1"
      [] t = "Nameserver" -> "2"
      [] t = "Error" -> "3"
      [] t = "BinHex" -> "4"
      [] t = "Dos" -> "5"
      [] t = "UuencodeFile" -> "6"
      [] t = "FullTextSearch" -> "7"
      [] t = "Telnet" -> "8"
      [] t = "BinaryFile" -> "9"
      [] t = "Mirror" -> "+"
      [] t = "GifFile" -> "g"
      [] t = "ImageFile" -> "I"
      [] t = "Telnet3270" -> "T"
      [] t = "BitmapFile" -> ":"
      [] t = "MovieFile" -> ";"
      [] t = "SoundFile" -> "<"
      [] t = "DocFile" -> "d"
      [] t = "HtmlFile" -> "h"
      [] t = "Info" -> "i"
      [] t = "PngFile" -> "p"
      [] t = "RtfFile" -> "r"
      [] t = "WavFile" -> "s"
      [] t = "PdfFile" -> "P"
      [] t = "XmlFile" -> "X"
      [] t = "Unknown" -> "?"

(***************************************************************************)
(* GopherURL                                                               *)
(***************************************************************************)
DefaultPort == 70
U16Max == 65535

MkURL(host, port, t, selector) ==
    [host |-> host, port |-> port, gopher_type |-> t, selector |-> selector]

NoURL == MkURL(<<>>, 0, "Unknown", <<>>)

\* str::parse::<u16> on a run of digits: the value, or U16Max + 1 as soon as the
\* number no longer fits in 16 bits (parse then returns an error).
RECURSIVE DecValue(_)
DecValue(ds) ==
    IF ds = <<>> THEN 0
    ELSE Min(10 * DecValue(SubSeq(ds, 1, Len(ds) - 1)) + DigitVal(ds[Len(ds)]),
             U16Max + 1)

\* Decimal digits of a number (Display for u16).
RECURSIVE DecDigits(_)
DecDigits(n) ==
    IF n < 10 THEN <<DigitChar(n)>>
    ELSE Append(DecDigits(n \div 10), DigitChar(n % 10))

SchemePrefix == <<"g", "o", "p", "h", "e", "r", ":", "/", "/">>

\* The character classes of the regex.
TypeChars == AzRange \cup Digits \cup {":", "+", ";", "<", "?"}
IsHostChar(c) == c \notin {":", "/"}
IsTypeChar(c) == c \in TypeChars
IsDot(c) == c # LF

InClass(c, kind) ==
    CASE kind = "host" -> IsHostChar(c)
      [] kind = "digit" -> c \in Digits
      [] kind = "dot" -> IsDot(c)

\* Length of the longest run of characters of a class, from position p.
RunLen(s, p, kind) ==
    LET stops == {i \in p..Len(s) : ~InClass(s[i], kind)}
    IN IF p > Len(s) THEN 0
       ELSE IF stops = {} THEN Len(s) - p + 1
       ELSE (CHOOSE i \in stops : \A j \in stops : i <= j) - p

NoCaps == [ok |-> FALSE, host |-> <<>>, hasPort |-> FALSE, port |-> <<>>,
           hasType |-> FALSE, type |-> "?", selector |-> <<>>]

\* (?:/(?P<type>[A-z0-9:+:;<?])(?P<selector>.*))?$ at position p: the group is
\* tried first (greedy ?); .* must reach the end of the text for $ to match,
\* which it does when no line feed follows; then the empty alternative is tried.
MatchTail(s, p) ==
    IF /\ p + 1 <= Len(s)
       /\ s[p] = "/"
       /\ IsTypeChar(s[p + 1])
       /\ p + 2 + RunLen(s, p + 2, "dot") = Len(s) + 1
    THEN [NoCaps EXCEPT !.ok = TRUE, !.hasType = TRUE, !.type = s[p + 1],
                        !.selector = Drop(s, p + 2)]
    ELSE IF p = Len(s) + 1 THEN [NoCaps EXCEPT !.ok = TRUE]
    ELSE NoCaps

\* (?::(?P<port>\d+))? then the tail, at position p.  \d+ is greedy; a shorter
\* run of digits is followed by a digit, where neither '/' nor $ matches, so
\* only the longest run can lead to a match; then the group is skipped.
MatchPort(s, p) ==
    LET n == IF p <= Len(s) /\ s[p] = ":" THEN RunLen(s, p + 1, "digit") ELSE 0
        withPort == MatchTail(s, p + 1 + n)
    IN IF n > 0 /\ withPort.ok
       THEN [withPort EXCEPT !.hasPort = TRUE, !.port = SubSeq(s, p + 1, p + n)]
       ELSE MatchTail(s, p)

\* (?P<host>[^:/]+) then the rest, at position p.  A host shorter than the
\* longest run is followed by a host character, where neither ':' nor '/' nor
\* $ matches, so only the longest run can lead to a match.
MatchHost(s, p) ==
    LET n == RunLen(s, p, "host")
        rest == MatchPort(s, p + n)
    IN IF n > 0 /\ rest.ok
       THEN [rest EXCEPT !.host = SubSeq(s, p, p + n - 1)]
       ELSE NoCaps

\* (?:gopher://)? then the rest, at position p: with the prefix first.
MatchAt(s, p) ==
    LET withPrefix == MatchHost(s, p + Len(SchemePrefix))
    IN IF StartsWith(Drop(s, p), SchemePrefix) /\ withPrefix.ok
       THEN withPrefix
       ELSE MatchHost(s, p)

\* Regex::captures: the pattern has no ^, so the leftmost start position at
\* which it matches is taken.
RECURSIVE CapturesFrom(_, _)
CapturesFrom(s, p) ==
    IF p > Len(s) + 1 THEN NoCaps
    ELSE LET m == MatchAt(s, p)
         IN IF m.ok THEN m ELSE CapturesFrom(s, p + 1)

Captures(s) == CapturesFrom(s, 1)

Ok(url) == [kind |-> "Ok", url |-> url]
Err == [kind |-> "Err", url |-> NoURL]
Panic == [kind |-> "Panic", url |-> NoURL]
None == [kind |-> "None", url |-> NoURL]

\* impl TryFrom<&str> for GopherURL
TryFrom(url_str) ==
    LET caps == Captures(url_str)
    IN IF ~caps.ok THEN Err
       ELSE IF caps.hasPort /\ DecValue(caps.port) > U16Max
       THEN Panic      \* p.as_str().parse().unwrap() on a number that is no u16
       ELSE Ok(MkURL(caps.host,
                     IF caps.hasPort THEN DecValue(caps.port) ELSE DefaultPort,
                     IF caps.hasType THEN ItemFromChar(caps.type) ELSE "Submenu",
                     IF caps.hasType THEN caps.selector ELSE <<>>))

\* impl Display for GopherURL
Display(u) ==
    IF u.selector = <<>>
    THEN SchemePrefix \o u.host \o <<":">> \o DecDigits(u.port)
    ELSE SchemePrefix \o u.host \o <<":">> \o DecDigits(u.port) \o <<"/">>
         \o <<ItemToChar(u.gopher_type)>> \o u.selector

\* GopherURL::new: port.parse().unwrap_or(70); str::parse::<u16> takes digits
\* with an optional leading '+'.
ParsePortField(f) ==
    LET ds == IF f # <<>> /\ f[1] = "+" THEN Drop(f, 2) ELSE f
    IN IF ds # <<>> /\ RunLen(ds, 1, "digit") = Len(ds) /\ DecValue(ds) <= U16Max
       THEN DecValue(ds)
       ELSE DefaultPort

\* GopherURL::to_href: self.selector.starts_with("URL:")
EscapePrefix == <<"U", "R", "L", ":">>

(***************************************************************************)
(* DirEntry                                                                *)
(***************************************************************************)
MkEntry(t, label, hasUrl, url) ==
    [item_type |-> t, label |-> label, hasUrl |-> hasUrl, url |-> url]

\* _INVALID_ENTRY
InvalidEntry == MkEntry("Unknown", <<>>, FALSE, NoURL)

\* Position of the first TAB of s at or after position from, 0 when there is none.
NextTab(s, from) ==
    LET tabs == {i \in from..Len(s) : s[i] = TAB}
    IN IF tabs = {} THEN 0 ELSE CHOOSE i \in tabs : \A j \in tabs : i <= j

\* DirEntry::new
NewEntry_HostSelectorSwapped(t, label, selector, host, port) ==
    IF t = "Info" THEN MkEntry(t, label, FALSE, NoURL)
    ELSE MkEntry(t, label, TRUE, MkURL(selector, ParsePortField(port), t, host))
NewEntry(t, label, selector, host, port) ==
    IF t = "Info" THEN MkEntry(t, label, FALSE, NoURL)
    ELSE MkEntry(t, label, TRUE, MkURL(host, ParsePortField(port), t, selector))

\* impl From<&str> for DirEntry: value.split('\t') and its first four fields.
EntryFrom(value) ==
    LET t1 == NextTab(value, 1)
        t2 == IF t1 = 0 THEN 0 ELSE NextTab(value, t1 + 1)
        t3 == IF t2 = 0 THEN 0 ELSE NextTab(value, t2 + 1)
        t4 == IF t3 = 0 THEN 0 ELSE NextTab(value, t3 + 1)
        item_label == SubSeq(value, 1, t1 - 1)
        selector == SubSeq(value, t1 + 1, t2 - 1)
        host == SubSeq(value, t2 + 1, t3 - 1)
        port == SubSeq(value, t3 + 1, IF t4 = 0 THEN Len(value) ELSE t4 - 1)
    IN IF t3 = 0 THEN InvalidEntry
       ELSE IF item_label = <<>> THEN InvalidEntry
       ELSE NewEntry(ItemFromChar(item_label[1]), Drop(item_label, 2),
                     selector, host, port)

(***************************************************************************)
(* Menu::from_url                                                          *)
(***************************************************************************)
\* line == "." (the loop's break); lines() has stripped the line ending.
IsTerminator_WithCRLF(line) == line = <<".", CR, LF>>
IsTerminator(line) == line = <<".">>

\* The GopherItem::Info arm: merge into a preceding Info item, else push.
InfoArm_NoMerge(its, entry) == Append(its, entry)
InfoArm(its, entry) ==
    IF its # <<>> /\ its[Len(its)].item_type = "Info"
    THEN [its EXCEPT ![Len(its)].label = @ \o <<LF>> \o entry.label]
    ELSE Append(its, entry)

\* match entry.item_type { Unknown => continue, Info => ..., _ => push }
AddEntry_KeepUnknown(its, entry) ==
    IF entry.item_type = "Info" THEN InfoArm(its, entry) ELSE Append(its, entry)
AddEntry(its, entry) ==
    CASE entry.item_type = "Unknown" -> its
      [] entry.item_type = "Info" -> InfoArm(its, entry)
      [] OTHER -> Append(its, entry)

MaxLines == 4

OkLine(text) == [ok |-> TRUE, text |-> text]
\* A line lines() cannot decode (invalid UTF-8) or read: Some(Err(_)).
BadLine == [ok |-> FALSE, text |-> <<>>]

MenuLineKinds ==
    {OkLine(<<"i", "A", TAB, TAB, TAB>>),
     OkLine(<<"i", "B", TAB, TAB, TAB>>),
     OkLine(<<"1", "F", TAB, "s", TAB, "h", TAB, "7">>),
     OkLine(<<"0", "T", TAB, TAB, "h", TAB, "7">>),
     OkLine(<<"i", "C">>),
     OkLine(<<"z", "Z", TAB, "s", TAB, "h", TAB, "7">>),
     OkLine(<<".">>),
     BadLine}

MenuStreams == UNION {[1..n -> MenuLineKinds] : n \in 0..MaxLines}

IdleMenu ==
    m_pc = "off" /\ m_lines = <<>> /\ m_pos = 0 /\ items = <<>> /\ m_res = "None"

InitMenu ==
    /\ m_pc = "fetch"
    /\ m_lines \in MenuStreams
    /\ m_pos = 0
    /\ items = <<>>
    /\ m_res = "None"

\* fetch_url(&url, query).await? returned Err: from_url returns it.
FetchFailed ==
    /\ m_pc = "fetch"
    /\ m_pc' = "done" /\ m_res' = "Err"
    /\ UNCHANGED <<m_lines, m_pos, items, uvars, fvars, rvars, evars, wvars>>

\* fetch_url returned the stream; .lines() wraps it.
FetchSucceeded ==
    /\ m_pc = "fetch"
    /\ m_pc' = "loop"
    /\ UNCHANGED <<m_lines, m_pos, items, m_res, uvars, fvars, rvars, evars, wvars>>

\* One iteration of while let Some(Ok(line)) = response.next().await
ReadLine ==
    /\ m_pc = "loop"
    /\ m_pos < Len(m_lines) /\ m_lines[m_pos + 1].ok
    /\ LET line == m_lines[m_pos + 1].text
       IN /\ m_pos' = m_pos + 1
          /\ IF IsTerminator(line)
             THEN m_pc' = "done" /\ m_res' = "Ok" /\ items' = items
             ELSE /\ items' = AddEntry(items, EntryFrom(line))
                  /\ UNCHANGED <<m_pc, m_res>>
    /\ UNCHANGED <<m_lines, uvars, fvars, rvars, evars, wvars>>

\* response.next() gave None or Some(Err(_)): the loop ends, Ok(Self { items }).
EndOfLines ==
    /\ m_pc = "loop"
    /\ IF m_pos < Len(m_lines) THEN ~m_lines[m_pos + 1].ok ELSE TRUE
    /\ m_pc' = "done" /\ m_res' = "Ok"
    /\ UNCHANGED <<m_lines, m_pos, items, uvars, fvars, rvars, evars, wvars>>

NextMenu == FetchFailed \/ FetchSucceeded \/ ReadLine \/ EndOfLines

\* The lines the loop has taken and parsed: all it took, less the terminator.
ProcessedLines ==
    IF m_pos > 0 /\ IsTerminator(m_lines[m_pos].text)
    THEN SubSeq(m_lines, 1, m_pos - 1)
    ELSE SubSeq(m_lines, 1, m_pos)

EntriesOf(ls) == [i \in 1..Len(ls) |-> EntryFrom(ls[i].text)]

IsKnown(e) == e.item_type # "Unknown"
IsInfo(e) == e.item_type = "Info"

\* The maximal runs <<i, j>> of consecutive Info entries of a sequence.
InfoRuns(es) ==
    {r \in (1..Len(es)) \X (1..Len(es)) :
        /\ r[1] <= r[2]
        /\ \A i \in r[1]..r[2] : IsInfo(es[i])
        /\ r[1] = 1 \/ ~IsInfo(es[r[1] - 1])
        /\ r[2] = Len(es) \/ ~IsInfo(es[r[2] + 1])}

\* The labels of es[i..j] joined by line feeds, in order.
RECURSIVE JoinLabels(_, _, _)
JoinLabels(es, i, j) ==
    IF i = j THEN es[i].label
    ELSE JoinLabels(es, i, j - 1) \o <<LF>> \o es[j].label

\* Each maximal run of Info entries of es is exactly one Info item of the menu,
\* labelled with the run's labels joined by '\n', and no two Info items are
\* adjacent.
CoalescedFrom(es) ==
    /\ \A r \in InfoRuns(es) :
          \E k \in 1..Len(items) :
              IsInfo(items[k]) /\ items[k].label = JoinLabels(es, r[1], r[2])
    /\ Cardinality({k \in 1..Len(items) : IsInfo(items[k])}) = Cardinality(InfoRuns(es))
    /\ \A k \in 1..(Len(items) - 1) : ~(IsInfo(items[k]) /\ IsInfo(items[k + 1]))

MenuRunning == m_pc \in {"loop", "done"} /\ m_res # "Err"

RECURSIVE SplitLF(_)
SplitLF(label) ==
    LET n == RunLen(label, 1, "dot")
    IN IF n = Len(label) THEN <<label>>
       ELSE <<SubSeq(label, 1, n)>> \o SplitLF(Drop(label, n + 2))

\* The menu with every merged Info item taken apart into one Info entry a line.
RECURSIVE EntryLines(_)
EntryLines(its) ==
    IF its = <<>> THEN <<>>
    ELSE LET e == its[1]
             parts == SplitLF(e.label)
         IN (IF IsInfo(e)
             THEN [i \in 1..Len(parts) |-> MkEntry("Info", parts[i], FALSE, NoURL)]
             ELSE <<e>>) \o EntryLines(Tail(its))

\* The loop ended for one of its three reasons: the stream ended, the next line
\* could not be read, or the line just taken was the terminator.
StoppedAtEnd ==
    \/ m_pos = Len(m_lines)
    \/ m_pos < Len(m_lines) /\ ~m_lines[m_pos + 1].ok
    \/ m_pos > 0 /\ IsTerminator(m_lines[m_pos].text)

\* C4: the menu never holds an Unknown entry, and a line that parses to the
\* invalid/Unknown entry neither ends the loop nor makes from_url fail: every
\* valid line taken before the loop's end is in the menu, in input order.
C4_UnknownSkipped ==
    MenuRunning =>
        /\ \A k \in 1..Len(items) : IsKnown(items[k])
        /\ EntryLines(items) = SelectSeq(EntriesOf(ProcessedLines), IsKnown)
        /\ m_pc = "done" => (m_res = "Ok" /\ StoppedAtEnd)

\* A line that parses to Unknown, then a Submenu line that is in the menu.
C4_Witness ==
    /\ m_pc = "done" /\ m_res = "Ok"
    /\ \E i \in 1..(Len(ProcessedLines) - 1) :
          LET es == EntriesOf(ProcessedLines)
          IN /\ ~IsKnown(es[i]) /\ es[i + 1].item_type = "Submenu"
             /\ \E k \in 1..Len(items) : items[k] = es[i + 1]

\* Index of the first "." line of the stream, 0 when there is none.
FirstDot ==
    LET dots == {i \in 1..Len(m_lines) : m_lines[i].ok /\ m_lines[i].text = <<".">>}
    IN IF dots = {} THEN 0 ELSE CHOOSE i \in dots : \A j \in dots : i <= j

\* How many lines the loop takes at most: up to and including the first ".".
LastToTake == IF FirstDot = 0 THEN Len(m_lines) ELSE FirstDot

HeaderLen == 256        \* let mut header = vec![0; 256]
BufCap == 8192          \* BufReader::new: the reader's default capacity

MaxRespPieces == 2
MaxSeg == 3             \* socket reads of 1..MaxSeg bytes, besides the larger ones
SmallWant == 1          \* the caller reads SmallWant bytes at a time, or BufCap

Repeat(c, n) == [i \in 1..n |-> c]

ErrLine == <<"3", "E", TAB, TAB, "h", TAB, "1", CR, LF>>
DirLine == <<"1", "F", TAB, "s", TAB, "h", TAB, "7", CR, LF>>
ShortLine3 == <<"3", "E", CR, LF>>
LongErrLine == <<"3">> \o Repeat("E", HeaderLen) \o <<TAB, TAB, "h", TAB, "1", CR, LF>>
LongText == Repeat("x", HeaderLen)

RespPieceKinds == {ErrLine, DirLine, ShortLine3, <<BAD>>, <<"x">>}

RECURSIVE Flat(_)
Flat(ps) == IF ps = <<>> THEN <<>> ELSE ps[1] \o Flat(Tail(ps))

\* What a server may send: a few short pieces, or a response longer than the
\* peek's window.
Responses ==
    {Flat(ps) : ps \in UNION {[1..n -> RespPieceKinds] : n \in 0..MaxRespPieces}}
    \cup {p \o LongText : p \in {<<>>, ErrLine, ShortLine3, DirLine}}
    \cup {LongErrLine}

\* What one read of the TcpStream may return when avail bytes are still to come
\* and the buffer takes room bytes: at least one byte, at most what fits.
SegSizes(avail, room) ==
    {k \in 1..Min(avail, room) :
        \/ k <= MaxSeg
        \/ k = Min(avail, room)
        \/ k \in {HeaderLen - 1, HeaderLen, HeaderLen + 1}}

\* String::from_utf8 succeeds
IsUtf8(bytes) == \A i \in 1..Len(bytes) : bytes[i] # BAD

FRes(kind, msg) == [kind |-> kind, msg |-> msg]

\* Lines 447-457: the header of 256 bytes, zero-filled, holds the bytes read;
\* the whole of it is decoded and handed to DirEntry::from.
Sniff(bytes) ==
    LET header == bytes \o Repeat(NUL, HeaderLen - Len(bytes))
        entry == EntryFrom(header)
    IN IF IsUtf8(header) /\ entry.item_type = "Error"
       THEN FRes("Err", entry.label)
       ELSE FRes("Ok", <<>>)

\* urlencoding: the value of a hexadecimal digit, -1 for any other character.
HexVal(c) ==
    CASE c \in Digits -> DigitVal(c)
      [] c \in {"A", "a"} -> 10 [] c \in {"B", "b"} -> 11 [] c \in {"C", "c"} -> 12
      [] c \in {"D", "d"} -> 13 [] c \in {"E", "e"} -> 14 [] c \in {"F", "f"} -> 15
      [] OTHER -> -1

\* The character a decoded byte stands for.  The selectors modelled decode only
\* to '%', 'A' and bytes of 0x80 and more, none of which is the lead byte of a
\* UTF-8 sequence: each of those makes the text invalid UTF-8.
ByteChar(n) ==
    CASE n >= 128 -> BAD
      [] n = 37 -> "%"
      [] n = 65 -> "A"
      [] n = 9 -> TAB
      [] n = 10 -> LF
      [] n = 13 -> CR
      [] OTHER -> "other"

\* urlencoding::decode_binary: every %XY with two hexadecimal digits becomes
\* the byte XY; a '%' not followed by two such digits stays as it is.
RECURSIVE PercentDecode(_)
PercentDecode(s) ==
    IF s = <<>> THEN <<>>
    ELSE IF /\ s[1] = "%" /\ Len(s) >= 3
            /\ HexVal(s[2]) >= 0 /\ HexVal(s[3]) >= 0
    THEN <<ByteChar(16 * HexVal(s[2]) + HexVal(s[3]))>> \o PercentDecode(Drop(s, 4))
    ELSE <<s[1]>> \o PercentDecode(Tail(s))

NoQuery == [some |-> FALSE, q |-> <<>>]
SomeQuery(q) == [some |-> TRUE, q |-> q]

\* format!("{}\t{}\r\n", url.selector, q) or format!("{}\r\n", url.selector)
RequestLine(selector, query) ==
    IF query.some THEN selector \o <<TAB>> \o query.q \o <<CR, LF>>
    ELSE selector \o <<CR, LF>>

\* The first urlencoding::decode of the request line (lines 423-434).
Decoded1(selector, query) == PercentDecode(RequestLine(selector, query))

\* The second urlencoding::decode, on the result of the first (line 436).
Decoded2(selector, query) == PercentDecode(Decoded1(selector, query))

\* The ? operator on an I/O error: fetch_url returns.
OnIoError_Retry(at) == at
OnIoError(at) == "done"

Op(op, ok) == [op |-> op, ok |-> ok]

MaxSelPieces == 3

SelPieces ==
    {<<"%">>, <<"2", "5">>, <<"4", "1">>, <<"F", "F">>, <<"s">>, EscapePrefix}

Selectors ==
    {Flat(ps) : ps \in UNION {[1..n -> SelPieces] : n \in 0..MaxSelPieces}}

Queries == {NoQuery, SomeQuery(<<"q">>)}

\* Every response with a plain selector, and every selector and query with one
\* short response.
InitFetch ==
    /\ f_pc = "connect"
    /\ \/ f_resp \in Responses /\ f_sel = <<"s">> /\ f_query = NoQuery
       \/ f_resp = DirLine /\ f_sel \in Selectors /\ f_query \in Queries
    /\ f_sock = 0 /\ f_bufrd = <<>> /\ f_cursor = <<>> /\ f_read = -1
    /\ f_res = FRes("None", <<>>)
    /\ f_out = <<>> /\ f_eof = FALSE
    /\ f_req = <<>> /\ f_ops = <<>>

\* TcpStream::connect(...).await? succeeded
Connect ==
    /\ f_pc = "connect"
    /\ f_pc' = "write"
    /\ f_ops' = Append(f_ops, Op("connect", TRUE))
    /\ UNCHANGED <<f_resp, f_sock, f_bufrd, f_cursor, f_read, f_res, f_out, f_eof,
                   f_sel, f_query, f_req, uvars, mvars, rvars, evars, wvars>>

\* TcpStream::connect(...).await? failed
ConnectFails ==
    /\ f_pc = "connect"
    /\ f_pc' = OnIoError("connect") /\ f_res' = FRes("IoErr", <<>>)
    /\ f_ops' = Append(f_ops, Op("connect", FALSE))
    /\ UNCHANGED <<f_resp, f_sock, f_bufrd, f_cursor, f_read, f_out, f_eof,
                   f_sel, f_query, f_req, uvars, mvars, rvars, evars, wvars>>

\* The first decode gave text that is not UTF-8: return Err("decoding URL").
DecodeFails ==
    /\ f_pc = "write"
    /\ ~IsUtf8(Decoded1(f_sel, f_query))
    /\ f_pc' = "done" /\ f_res' = FRes("DecodeErr", <<>>)
    /\ UNCHANGED <<f_resp, f_sock, f_bufrd, f_cursor, f_read, f_out, f_eof,
                   f_sel, f_query, f_req, f_ops, uvars, mvars, rvars, evars, wvars>>

\* The second decode gave text that is not UTF-8: unwrap() panics.
DecodePanics ==
    /\ f_pc = "write"
    /\ IsUtf8(Decoded1(f_sel, f_query))
    /\ ~IsUtf8(Decoded2(f_sel, f_query))
    /\ f_pc' = "done" /\ f_res' = FRes("Panic", <<>>)
    /\ UNCHANGED <<f_resp, f_sock, f_bufrd, f_cursor, f_read, f_out, f_eof,
                   f_sel, f_query, f_req, f_ops, uvars, mvars, rvars, evars, wvars>>

\* stream.write_all(...).await? succeeded; BufReader::new(stream)
WriteRequest ==
    /\ f_pc = "write"
    /\ IsUtf8(Decoded1(f_sel, f_query))
    /\ IsUtf8(Decoded2(f_sel, f_query))
    /\ f_pc' = "peek"
    /\ f_req' = Decoded2(f_sel, f_query)
    /\ f_ops' = Append(f_ops, Op("write", TRUE))
    /\ UNCHANGED <<f_resp, f_sock, f_bufrd, f_cursor, f_read, f_res, f_out, f_eof,
                   f_sel, f_query, uvars, mvars, rvars, evars, wvars>>

\* stream.write_all(...).await? failed
WriteFails ==
    /\ f_pc = "write"
    /\ IsUtf8(Decoded1(f_sel, f_query))
    /\ IsUtf8(Decoded2(f_sel, f_query))
    /\ f_pc' = OnIoError("write") /\ f_res' = FRes("IoErr", <<>>)
    /\ f_ops' = Append(f_ops, Op("write", FALSE))
    /\ UNCHANGED <<f_resp, f_sock, f_bufrd, f_cursor, f_read, f_out, f_eof,
                   f_sel, f_query, f_req, uvars, mvars, rvars, evars, wvars>>

\* buf.read(&mut header).await? and what follows it.  The BufReader is empty and
\* the header smaller than its capacity, so it fills its buffer with one read of
\* the socket (n bytes, 0 at the end of the stream) and copies out at most 256.
Peek ==
    /\ f_pc = "peek"
    /\ \E n \in (IF f_resp = <<>> THEN {0} ELSE SegSizes(Len(f_resp), BufCap)) :
          LET bytes_read == Min(n, HeaderLen)
              bytes == SubSeq(f_resp, 1, bytes_read)
              r == Sniff(bytes)
          IN /\ f_sock' = n
             /\ f_read' = bytes_read
             /\ f_res' = r
             /\ IF r.kind = "Err"
                THEN f_pc' = "done" /\ f_cursor' = <<>> /\ f_bufrd' = <<>>
                ELSE /\ f_pc' = "stream"
                     /\ f_cursor' = bytes
                     /\ f_bufrd' = SubSeq(f_resp, bytes_read + 1, n)
    /\ f_ops' = Append(f_ops, Op("read", TRUE))
    /\ UNCHANGED <<f_resp, f_out, f_eof, f_sel, f_query, f_req, uvars, mvars, rvars, evars, wvars>>

\* buf.read(&mut header).await? failed
PeekFails ==
    /\ f_pc = "peek"
    /\ f_pc' = OnIoError("peek") /\ f_res' = FRes("IoErr", <<>>)
    /\ f_ops' = Append(f_ops, Op("read", FALSE))
    /\ UNCHANGED <<f_resp, f_sock, f_bufrd, f_cursor, f_read, f_out, f_eof,
                   f_sel, f_query, f_req, uvars, mvars, rvars, evars, wvars>>

\* The caller reads the returned Cursor.chain(buf) with a buffer of want bytes:
\* the cursor first; once it is empty the BufReader: its buffered bytes, else
\* one read of the socket (into its buffer, or straight into the caller's when
\* that is at least as large).
CallerRead ==
    /\ f_pc = "stream" /\ ~f_eof
    /\ \E want \in {SmallWant, BufCap} :
          IF f_cursor # <<>>
          THEN LET k == Min(want, Len(f_cursor))
               IN /\ f_out' = f_out \o SubSeq(f_cursor, 1, k)
                  /\ f_cursor' = Drop(f_cursor, k + 1)
                  /\ UNCHANGED <<f_bufrd, f_sock, f_eof>>
          ELSE IF f_bufrd # <<>>
          THEN LET k == Min(want, Len(f_bufrd))
               IN /\ f_out' = f_out \o SubSeq(f_bufrd, 1, k)
                  /\ f_bufrd' = Drop(f_bufrd, k + 1)
                  /\ UNCHANGED <<f_cursor, f_sock, f_eof>>
          ELSE IF f_sock = Len(f_resp)
          THEN f_eof' = TRUE /\ UNCHANGED <<f_out, f_cursor, f_bufrd, f_sock>>
          ELSE \E n \in SegSizes(Len(f_resp) - f_sock, Max(want, BufCap)) :
                  LET k == Min(want, n)
                  IN /\ f_sock' = f_sock + n
                     /\ f_out' = f_out \o SubSeq(f_resp, f_sock + 1, f_sock + k)
                     /\ f_bufrd' = SubSeq(f_resp, f_sock + k + 1, f_sock + n)
                     /\ UNCHANGED <<f_cursor, f_eof>>
    /\ UNCHANGED <<f_pc, f_resp, f_read, f_res, f_sel, f_query, f_req, f_ops, uvars, mvars, rvars, evars, wvars>>

NextFetch ==
    Connect \/ ConnectFails \/ DecodeFails \/ DecodePanics \/ WriteRequest
    \/ WriteFails \/ Peek \/ PeekFails \/ CallerRead

\* The first line of a response, as lines() would give it: up to the first line
\* feed, without a carriage return before it.
FirstLineOf(resp) ==
    LET n == RunLen(resp, 1, "dot")
        line == SubSeq(resp, 1, n)
    IN IF n < Len(resp) /\ n > 0 /\ line[n] = CR THEN SubSeq(line, 1, n - 1) ELSE line

\* A well-formed Error directory-entry line: type character '3', a label and
\* three further tab-separated fields.
IsErrorLine(line) == IsUtf8(line) /\ EntryFrom(line).item_type = "Error"

\* The peek has been done (no I/O error before or in it).
Peeked == f_read >= 0

\* C1: for every response whose first line is not a well-formed Error line, and
\* every size of the peek's read, fetch_url succeeds and the returned stream
\* yields exactly the response: the peeked bytes once, in order, then the rest.
C1_ContentReturned ==
    (Peeked /\ ~IsErrorLine(FirstLineOf(f_resp))) =>
        /\ f_res.kind = "Ok"
        /\ f_out \o f_cursor \o f_bufrd = SubSeq(f_resp, 1, f_sock)
        /\ f_eof => f_out = f_resp

\* C2: whenever the response begins with a well-formed Error line, fetch_url
\* returns an error whose message is that entry's label and hands out no
\* stream, however the bytes are split across reads and whatever follows.
C2_ErrorDetected ==
    (Peeked /\ IsErrorLine(FirstLineOf(f_resp))) =>
        /\ f_res = FRes("Err", EntryFrom(FirstLineOf(f_resp)).label)
        /\ f_cursor = <<>> /\ f_bufrd = <<>> /\ f_out = <<>>

\* C13: the request written is exactly the selector followed by CR LF, or
\* selector, TAB, query, CR LF when a query is given: the bytes are sent as
\* stored, for every selector, and building the request never panics.
C13_RequestAsStored ==
    /\ f_res.kind # "Panic"
    /\ (\E i \in 1..Len(f_ops) : f_ops[i] = Op("write", TRUE)) =>
          f_req = RequestLine(f_sel, f_query)

\* C14: for a selector that begins with "URL:" fetch_url opens no connection
\* and writes nothing.
C14_EscapeNotFetched ==
    StartsWith(f_sel, EscapePrefix) => (f_ops = <<>> /\ f_req = <<>>)

\* C15: one fetch_url call makes at most one connect, then at most one write,
\* then its read, in that order; a failed connect, write or read is its last
\* step: the error is returned and nothing is handed to the caller.
C15_SingleAttempt ==
    /\ Len(f_ops) <= 3
    /\ \A i \in 1..Len(f_ops) : f_ops[i].op = <<"connect", "write", "read">>[i]
    /\ \A i \in 1..Len(f_ops) :
          ~f_ops[i].ok =>
              /\ i = Len(f_ops)
              /\ f_pc = "done" /\ f_res = FRes("IoErr", <<>>)
              /\ f_cursor = <<>> /\ f_bufrd = <<>> /\ f_out = <<>>
    /\ f_res.kind = "IoErr" => (f_ops # <<>> /\ ~f_ops[Len(f_ops)].ok)

\* The write failed after a successful connect, and fetch_url returned the error.
C15_Witness ==
    /\ f_ops = <<Op("connect", TRUE), Op("write", FALSE)>>
    /\ f_pc = "done" /\ f_res.kind = "IoErr"

(***************************************************************************)
(* GopherURL scenario: try_from on an input string, or Display followed by *)
(* try_from on the string it produced.                                     *)
(***************************************************************************)
MaxPieces == 4

UrlPieces ==
    {SchemePrefix, <<"h">>, <<":">>, <<"/">>, <<"7", "0">>,
     <<"9", "9", "9", "9", "9">>, <<"1">>, <<"s">>, <<"-">>, <<LF>>}

\* GopherURL values as DirEntry::new / GopherURL::new build them from menu lines.
UrlValues ==
    {MkURL(h, p, t, sel) :
        h \in {<<"h">>, <<"h", "1">>},
        p \in {0, 7, DefaultPort, U16Max},
        t \in GopherItems,
        sel \in {<<>>, <<"s">>, <<"/", "s">>, <<"/", "s", "/", "1">>, <<"1">>,
                 EscapePrefix \o <<"x">>}}

IdleURL ==
    u_pc = "off" /\ u_n = 0 /\ u_mode = "off" /\ u_str = <<>> /\ u_url = NoURL /\ u_out = None

InitURL ==
    /\ u_pc = "start"
    /\ u_n = 0
    /\ u_out = None
    /\ \/ u_mode = "parse" /\ u_str = <<>> /\ u_url = NoURL
       \/ u_mode = "roundtrip" /\ u_url \in UrlValues /\ u_str = <<>>

\* The caller puts the address string together (a query parameter, a form field).
TypeInput ==
    /\ u_pc = "start" /\ u_mode = "parse"
    /\ u_n < MaxPieces
    /\ \E p \in UrlPieces : u_str' = u_str \o p
    /\ u_n' = u_n + 1
    /\ UNCHANGED <<u_pc, u_mode, u_url, u_out, mvars, fvars, rvars, evars, wvars>>

\* GopherURL::try_from(u_str)
ParseInput ==
    /\ u_pc = "start" /\ u_mode = "parse"
    /\ u_out' = TryFrom(u_str)
    /\ u_pc' = "parsed"
    /\ UNCHANGED <<u_n, u_mode, u_str, u_url, mvars, fvars, rvars, evars, wvars>>

\* u_url.to_string()
Format ==
    /\ u_pc = "start" /\ u_mode = "roundtrip"
    /\ u_str' = Display(u_url)
    /\ u_pc' = "shown"
    /\ UNCHANGED <<u_n, u_mode, u_url, u_out, mvars, fvars, rvars, evars, wvars>>

\* GopherURL::try_from(u_url.to_string())
Reparse ==
    /\ u_pc = "shown"
    /\ u_out' = TryFrom(u_str)
    /\ u_pc' = "reparsed"
    /\ UNCHANGED <<u_n, u_mode, u_str, u_url, mvars, fvars, rvars, evars, wvars>>

NextURL == TypeInput \/ ParseInput \/ Format \/ Reparse

\* C8: for every GopherURL whose selector does not start with "URL:", parsing
\* its Display form yields a GopherURL with the same host, port, item type and
\* selector.
C8_RoundTrip ==
    (u_pc = "reparsed" /\ ~StartsWith(u_url.selector, EscapePrefix))
        => u_out = Ok(u_url)

\* C9: GopherURL::try_from never panics: every input gives a GopherURL or an
\* error value.
C9_NeverPanics == u_pc = "parsed" => u_out.kind \in {"Ok", "Err"}

\* The decomposition of the whole string by the grammar
\* [gopher://]host[:port][/type-char[selector]], from its first character.
GrammarURL(s) ==
    LET body == IF StartsWith(s, SchemePrefix) THEN Drop(s, Len(SchemePrefix) + 1) ELSE s
        hl == RunLen(body, 1, "host")
        r1 == Drop(body, hl + 1)
        pl == IF r1 # <<>> /\ r1[1] = ":" THEN RunLen(r1, 2, "digit") ELSE 0
        r2 == IF pl > 0 THEN Drop(r1, pl + 2) ELSE r1
        hasT == Len(r2) >= 2 /\ r2[1] = "/"
    IN MkURL(SubSeq(body, 1, hl),
             IF pl > 0 THEN DecValue(SubSeq(r1, 2, pl + 1)) ELSE DefaultPort,
             IF hasT THEN ItemFromChar(r2[2]) ELSE "Submenu",
             IF hasT THEN Drop(r2, 3) ELSE <<>>)

\* C10: try_from applies the grammar to the whole input from its first
\* character: host is the run right after the optional gopher:// up to the
\* first ':' or '/', port the given port or 70, item type the type of type-char
\* or Submenu, selector the verbatim remainder or empty.
C10_GrammarFromStart ==
    (u_pc = "parsed" /\ u_out.kind = "Ok") => u_out.url = GrammarURL(u_str)

(***************************************************************************)
(* RateLimiter (spec.md 4.4): allow(source_address) and the background     *)
(* task that clears the counters once a window.                            *)
(***************************************************************************)
WindowSeconds == 10     \* the fixed window
RateCeiling == 1        \* requests per second

MaxCalls == 12          \* allow() calls modelled per address and window

Addrs == {"a1", "a2"}

\* count / window_seconds exceeds the ceiling (an exact quotient, not a
\* truncated one).
RateExceeded_Truncated(count) == (count \div WindowSeconds) > RateCeiling
RateExceeded(count) == count > RateCeiling * WindowSeconds

\* allow increments the counter, whatever its verdict.
Incremented_RolledBack(count) == IF RateExceeded(count + 1) THEN count ELSE count + 1
Incremented(count) == count + 1

IdleRate ==
    /\ bucket = [a \in Addrs |-> 0]
    /\ r_calls = [a \in Addrs |-> 0]
    /\ r_hist = [a \in Addrs |-> <<>>]
    /\ r_tripped = [a \in Addrs |-> FALSE]
    /\ r_sweep = {}

\* The map as created at startup.
InitRate == IdleRate

\* allow(a): increment-and-read on the shared map, then the comparison.
Allow(a) ==
    /\ r_calls[a] < MaxCalls
    /\ LET count == Incremented(bucket[a])
       IN /\ bucket' = [bucket EXCEPT ![a] = count]
          /\ r_hist' = [r_hist EXCEPT ![a] = Append(@, ~RateExceeded(count))]
    /\ r_calls' = [r_calls EXCEPT ![a] = @ + 1]
    /\ UNCHANGED <<r_tripped, r_sweep, uvars, mvars, fvars, evars, wvars>>

\* The window has passed: the background task starts to clear the map.
StartReset ==
    /\ r_sweep = {}
    /\ r_sweep' = Addrs
    /\ UNCHANGED <<bucket, r_calls, r_hist, r_tripped, uvars, mvars, fvars, evars, wvars>>

\* The background task clears one address's counter.
ResetKey(a) ==
    /\ a \in r_sweep
    /\ bucket' = [bucket EXCEPT ![a] = 0]
    /\ r_calls' = [r_calls EXCEPT ![a] = 0]
    /\ r_hist' = [r_hist EXCEPT ![a] = <<>>]
    /\ r_tripped' = [r_tripped EXCEPT ![a] =
                        @ \/ \E i \in 1..Len(r_hist[a]) : ~r_hist[a][i]]
    /\ r_sweep' = r_sweep \ {a}
    /\ UNCHANGED <<uvars, mvars, fvars, evars, wvars>>

AllowAny == \E a \in Addrs : Allow(a)
ResetAny == \E a \in Addrs : ResetKey(a)

NextRate == AllowAny \/ StartReset \/ ResetAny

\* C6: with a ceiling of 1 request/second and a 10-second window, of the calls
\* one address makes within a window the first 10 are accepted and the 11th is
\* rejected; after the reset of its counter the next call is accepted again.
C6_EleventhRejected ==
    \A a \in Addrs :
        \A i \in 1..Len(r_hist[a]) :
            /\ i <= 10 => r_hist[a][i]
            /\ i = 11 => ~r_hist[a][i]

\* An address that was rejected, had its counter reset, and is accepted again.
C6_Witness ==
    \E a \in Addrs : r_tripped[a] /\ r_hist[a] = <<TRUE>>

ValidTypeChars ==
    {"0", "1", "2", "3", "4", "5", "6", "7", "8", "9", "+", "g", "I", "T",
     ":", ";", "<", "d", "h", "i", "p", "r", "s", "P", "X"}

TypeCharInputs == ValidTypeChars \cup {"?", "z", "G", " ", "-", "/"}

MaxFields == 5

EntryLabels == {<<>>, <<"L", " ", "b">>}
EntrySelectors == {<<>>, <<"/", "s">>}
EntryHosts == {<<>>, <<"h">>}
EntryPorts ==
    {<<"7", "0">>, <<"7">>, <<"0">>, <<"6", "5", "5", "3", "5">>,
     <<"6", "5", "5", "3", "6">>, <<>>, <<"7", "x">>, <<"+", "7">>,
     <<"7", "1", CR, LF>>}

\* The values the k-th field of the line is drawn from.
FieldChoices(k, c) ==
    CASE k = 1 -> {<<>>} \cup {<<c>> \o l : l \in EntryLabels}
      [] k = 2 -> EntrySelectors
      [] k = 3 -> EntryHosts
      [] k = 4 -> EntryPorts
      [] OTHER -> {<<"+">>}

\* The line whose split('\t') gives the fields (no field holds a tab).
RECURSIVE JoinTabs(_)
JoinTabs(fields) ==
    IF fields = <<>> THEN <<>>
    ELSE IF Len(fields) = 1 THEN fields[1]
    ELSE fields[1] \o <<TAB>> \o JoinTabs(Tail(fields))

NoEntry == [kind |-> "None", entry |-> InvalidEntry]

IdleEntry ==
    /\ e_pc = "off" /\ e_char = "0" /\ e_item = "None" /\ e_back = "None"
    /\ e_fields = <<>> /\ e_entry = NoEntry

InitEntry ==
    /\ e_pc = "char"
    /\ e_char \in TypeCharInputs
    /\ e_item = "None" /\ e_back = "None"
    /\ e_fields = <<>> /\ e_entry = NoEntry

\* GopherItem::from(c), c.into()
FromChar ==
    /\ e_pc = "char"
    /\ e_item' = ItemFromChar(e_char)
    /\ e_pc' = "item"
    /\ UNCHANGED <<e_char, e_back, e_fields, e_entry, uvars, mvars, fvars, rvars, wvars>>

\* Into::<char>::into(item)
IntoChar ==
    /\ e_pc = "item"
    /\ e_back' = ItemToChar(e_item)
    /\ e_pc' = "build"
    /\ UNCHANGED <<e_char, e_item, e_fields, e_entry, uvars, mvars, fvars, rvars, wvars>>

\* One more tab-separated field of the line.
AddField ==
    /\ e_pc = "build"
    /\ Len(e_fields) < MaxFields
    /\ \E f \in FieldChoices(Len(e_fields) + 1, e_char) :
          e_fields' = Append(e_fields, f)
    /\ UNCHANGED <<e_pc, e_char, e_item, e_back, e_entry, uvars, mvars, fvars, rvars, wvars>>

\* DirEntry::from(line)
ParseEntry ==
    /\ e_pc = "build"
    /\ e_entry' = [kind |-> "Ok", entry |-> EntryFrom(JoinTabs(e_fields))]
    /\ e_pc' = "parsed"
    /\ UNCHANGED <<e_char, e_item, e_back, e_fields, uvars, mvars, fvars, rvars, wvars>>

NextEntry == FromChar \/ IntoChar \/ AddField \/ ParseEntry

\* The field is a decimal number that a port (a u16) can hold.
IsPortNumber(f) ==
    f # <<>> /\ RunLen(f, 1, "digit") = Len(f) /\ DecValue(f) <= U16Max

\* C11: DirEntry::from on a line of at least four tab-separated fields, the
\* first starting with a recognised type character and the fourth a port
\* number, yields that item type and the rest of the first field as label; for
\* every type but Info the URL has host = third field, selector = second field,
\* port = the value of the fourth field and the entry's item type; an Info
\* entry has no URL.
C11_EntryFields ==
    (/\ e_pc = "parsed" /\ Len(e_fields) >= 4
     /\ e_fields[1] # <<>> /\ e_char \in ValidTypeChars
     /\ IsPortNumber(e_fields[4])) =>
        LET e == e_entry.entry
        IN /\ e.item_type = ItemFromChar(e_char) /\ e.item_type # "Unknown"
           /\ e.label = Drop(e_fields[1], 2)
           /\ IF e.item_type = "Info" THEN ~e.hasUrl
              ELSE /\ e.hasUrl
                   /\ e.url = MkURL(e_fields[3], DecValue(e_fields[4]),
                                    e.item_type, e_fields[2])

\* The line "1L b\t/s\th\t65535" parsed into a Submenu entry with its URL.
C11_Witness ==
    /\ e_pc = "parsed" /\ Len(e_fields) = 4 /\ e_char = "1"
    /\ e_fields[1] = <<"1", "L", " ", "b">>
    /\ e_entry.entry.item_type = "Submenu" /\ e_entry.entry.hasUrl
    /\ e_entry.entry.url.host = <<"h">>
    /\ e_entry.entry.url.selector = <<"/", "s">>
    /\ e_entry.entry.url.port = 65535

\* C12: DirEntry::from on a line with fewer than four tab-separated fields, or
\* whose first character is missing or not a recognised type character,
\* returns the sentinel invalid entry: type Unknown, empty label, no URL.
C12_InvalidSentinel ==
    (/\ e_pc = "parsed"
     /\ \/ Len(e_fields) < 4
        \/ e_fields[1] = <<>>
        \/ e_char \notin ValidTypeChars) =>
        /\ e_entry.kind = "Ok"
        /\ e_entry.entry = InvalidEntry

\* C16: the wire-character mapping round-trips: each of the 25 valid type
\* characters converted to a GopherItem and back gives the character, no two
\* variants share a character, every other character gives Unknown, and
\* Unknown gives '?' (which gives Unknown).
C16_CharRoundTrip ==
    /\ Cardinality(ValidTypeChars) = 25
    /\ e_item # "None" =>
          /\ e_item \in GopherItems
          /\ (e_item = "Unknown") <=> (e_char \notin ValidTypeChars)
    /\ e_back # "None" =>
          /\ e_back = (IF e_char \in ValidTypeChars THEN e_char ELSE "?")
          /\ \A t \in GopherItems \ {e_item} : ItemToChar(t) # e_back

\* The character 'p' converted to PngFile and back to 'p'.
C16_Witness ==
    e_char = "p" /\ e_item = "PngFile" /\ e_back = "p"

(***************************************************************************)
(* The After middleware of main.rs: it peeks into the body of the handler's *)
(* response and either replaces the response by an error page or passes it *)
(* on.                                                                     *)
(***************************************************************************)
MwResp(kind, status, ctype, body) ==
    [kind |-> kind, status |-> status, ctype |-> ctype, body |-> body]

NoResp == MwResp("None", 0, "none", <<>>)

HandlerStatuses == {200, 404}
HandlerCTypes == {"none", "text/plain"}

IdleMiddleware ==
    /\ w_pc = "off" /\ w_body = <<>> /\ w_status = 200 /\ w_ctype = "none"
    /\ w_buf = <<>> /\ w_left = <<>> /\ w_resp = NoResp

\* let mut body = resp.take_body(); let mut buf = vec![0; 256];
InitMiddleware ==
    /\ w_pc = "peek"
    /\ w_body \in Responses
    /\ w_status \in HandlerStatuses
    /\ w_ctype \in HandlerCTypes
    /\ w_buf = Repeat(NUL, HeaderLen) /\ w_left = w_body /\ w_resp = NoResp

\* body.read(&mut buf).await? gave n bytes (0 at the end of the body); the
\* number is not kept.
MwPeek ==
    /\ w_pc = "peek"
    /\ \E n \in (IF w_body = <<>> THEN {0} ELSE SegSizes(Len(w_body), HeaderLen)) :
          /\ w_buf' = SubSeq(w_body, 1, n) \o Repeat(NUL, HeaderLen - n)
          /\ w_left' = Drop(w_body, n + 1)
    /\ w_pc' = "respond"
    /\ UNCHANGED <<w_body, w_status, w_ctype, w_resp, uvars, mvars, fvars, rvars, evars>>

\* body.read(&mut buf).await? failed: the middleware returns the error.
MwPeekFails ==
    /\ w_pc = "peek"
    /\ w_pc' = "done" /\ w_resp' = MwResp("Err", 0, "none", <<>>)
    /\ UNCHANGED <<w_body, w_status, w_ctype, w_buf, w_left, uvars, mvars, fvars, rvars, evars>>

\* The buffer is UTF-8 and parses to an Error entry.
MwIsError == IsUtf8(w_buf) /\ EntryFrom(w_buf).item_type = "Error"

\* The Error arm: a page with the entry's label, status 200, HTML.
MwErrorPage ==
    /\ w_pc = "respond"
    /\ MwIsError
    /\ w_resp' = MwResp("Page", 200, "text/html", EntryFrom(w_buf).label)
    /\ w_pc' = "done"
    /\ UNCHANGED <<w_body, w_status, w_ctype, w_buf, w_left, uvars, mvars, fvars, rvars, evars>>

\* Body::from(buf).chain(body) with the handler's status, its content type
\* (HTML when it has none) and its headers.
MwPassOn ==
    /\ w_pc = "respond"
    /\ ~MwIsError
    /\ w_resp' = MwResp("Body", w_status,
                        IF w_ctype = "none" THEN "text/html" ELSE w_ctype,
                        w_buf \o w_left)
    /\ w_pc' = "done"
    /\ UNCHANGED <<w_body, w_status, w_ctype, w_buf, w_left, uvars, mvars, fvars, rvars, evars>>

NextMiddleware == MwPeek \/ MwPeekFails \/ MwErrorPage \/ MwPassOn

\* The first up-to-256 bytes of the handler's body parse as an Error entry.
BodyStartsWithError ==
    LET head == SubSeq(w_body, 1, Min(Len(w_body), HeaderLen))
    IN IsUtf8(head) /\ EntryFrom(head).item_type = "Error"

\* C17: whenever the first up-to-256 bytes of the handler's body do not parse
\* as an Error entry, the body the middleware sends is the handler's body, byte
\* for byte and of the same length, with the handler's status and content type.
C17_BodyUnchanged ==
    (w_pc = "done" /\ w_resp.kind # "Err" /\ ~BodyStartsWithError) =>
        /\ w_resp.kind = "Body"
        /\ w_resp.body = w_body
        /\ w_resp.status = w_status
        /\ w_ctype # "none" => w_resp.ctype = w_ctype

(***************************************************************************)
(* Specifications: one scenario runs, the others stay idle.                *)
(***************************************************************************)
IdleFetch ==
    /\ f_pc = "off" /\ f_resp = <<>> /\ f_sock = 0 /\ f_bufrd = <<>>
    /\ f_cursor = <<>> /\ f_read = -1 /\ f_res = FRes("None", <<>>)
    /\ f_out = <<>> /\ f_eof = FALSE
    /\ f_sel = <<>> /\ f_query = NoQuery /\ f_req = <<>> /\ f_ops = <<>>

Init == InitFetch /\ IdleURL /\ IdleMenu /\ IdleRate /\ IdleEntry /\ IdleMiddleware
Spec == Init /\ [][NextFetch]_vars

InitURLOnly == InitURL /\ IdleMenu /\ IdleFetch /\ IdleRate /\ IdleEntry /\ IdleMiddleware
SpecURL == InitURLOnly /\ [][NextURL]_vars

InitMenuOnly == InitMenu /\ IdleURL /\ IdleFetch /\ IdleRate /\ IdleEntry /\ IdleMiddleware
SpecMenu == InitMenuOnly /\ [][NextMenu]_vars

InitRateOnly == InitRate /\ IdleURL /\ IdleMenu /\ IdleFetch /\ IdleEntry /\ IdleMiddleware
SpecRate == InitRateOnly /\ [][NextRate]_vars

InitEntryOnly ==
    InitEntry /\ IdleURL /\ IdleMenu /\ IdleFetch /\ IdleRate /\ IdleMiddleware
SpecEntry == InitEntryOnly /\ [][NextEntry]_vars

InitMiddlewareOnly ==
    InitMiddleware /\ IdleURL /\ IdleMenu /\ IdleFetch /\ IdleRate /\ IdleEntry
SpecMiddleware == InitMiddlewareOnly /\ [][NextMiddleware]_vars

====
